---- MODULE Spec2Model ----
(***************************************************************************)
(* A model of src/modules/prober/manager/metric.go: the metric record, its *)
(* ordered tag list, its field normalizer and its identity hash.           *)
(*                                                                         *)
(* Strings are sequences of bytes (0..255), compared as Go compares        *)
(* strings.  A *telegraf.Tag is an address into `heap`; a record's tag     *)
(* list is a sequence of such addresses, so that two records sharing a Tag *)
(* cell is something the model can express.  A *telegraf.Field cell is     *)
(* never written after it is allocated (AddField allocates a new cell), so *)
(* field lists are sequences of (Key, Value) records.                      *)
(***************************************************************************)
EXTENDS Integers, Sequences, FiniteSets, TLC

VARIABLES recs, heap, origin, last

vars == <<recs, heap, origin, last>>

(***************************************************************************)
(* Bounds of the model.                                                    *)
(***************************************************************************)
MaxTags == 3

MaxFields == 3

(***************************************************************************)
(* Bytes and strings.                                                      *)
(***************************************************************************)
\* The separator byte "\n" that HashID writes.
NL == 10

RECURSIVE StrLess(_, _)
\* Go's s < t on strings: bytewise lexicographic order.
StrLess(s, t) ==
    IF t = <<>> THEN FALSE
    ELSE IF s = <<>> THEN TRUE
    ELSE IF Head(s) < Head(t) THEN TRUE
    ELSE IF Head(s) > Head(t) THEN FALSE
    ELSE StrLess(Tail(s), Tail(t))

\* Go's s > t on strings.
StrGreater(s, t) == StrLess(t, s)

Min(S) == CHOOSE x \in S : \A y \in S : x <= y

Range(f) == {f[i] : i \in DOMAIN f}

(***************************************************************************)
(* Field values.  A Go interface{} value is a record                       *)
(*   [kind, num, str, null]                                                *)
(* kind names the dynamic type; num is the number (or 0/1 for a bool), str *)
(* the bytes of a string or []byte, null says that a pointer is nil.       *)
(* A float64 whose value is the integer n is [kind |-> "float64", num      *)
(* |-> n]; the inputs below are small integers, which every conversion to  *)
(* float64 keeps exactly.                                                  *)
(***************************************************************************)
Val(k, n, s, z) == [kind |-> k, num |-> n, str |-> s, null |-> z]

\* The untyped nil interface value.
Nil == Val("nil", 0, <<>>, TRUE)

F64(n) == Val("float64", n, <<>>, FALSE)

IntKinds == {"int64", "int", "uint", "uint64", "int32", "int16", "int8",
             "uint32", "uint16", "uint8"}

FloatKinds == {"float64", "float32"}

PtrIntKinds == {"*int64", "*int", "*uint", "*uint64", "*int32", "*int16",
                "*int8", "*uint32", "*uint16", "*uint8"}

PtrFloatKinds == {"*float64", "*float32"}

Digits == 48..57

RECURSIVE DigitsValue(_, _)
\* The value of a sequence of decimal digits, most significant first.
DigitsValue(s, acc) ==
    IF s = <<>> THEN acc ELSE DigitsValue(Tail(s), acc * 10 + (Head(s) - 48))

\* strconv.ParseFloat(s, 64) on the strings the model feeds it: a non-empty
\* run of decimal digits parses to its value; the empty string and a string
\* with a byte that is no digit (the model has no sign, point, exponent,
\* "inf" or "nan" inputs) do not parse.
atof(s) ==
    IF s # <<>> /\ \A i \in 1..Len(s) : s[i] \in Digits
    THEN F64(DigitsValue(s, 0))
    ELSE Nil

btof(b) == IF b = 1 THEN F64(1) ELSE F64(0)

\* The type switch of convertField.
convertField(v) ==
    CASE v.kind \in FloatKinds -> F64(v.num)
      [] v.kind \in IntKinds -> F64(v.num)
      [] v.kind = "string" -> atof(v.str)
      [] v.kind = "bool" -> btof(v.num)
      [] v.kind = "[]byte" -> atof(v.str)
      [] v.kind \in PtrFloatKinds \cup PtrIntKinds ->
            IF ~v.null THEN F64(v.num) ELSE Nil
      [] v.kind = "*string" -> IF ~v.null THEN atof(v.str) ELSE Nil
      [] v.kind = "*bool" -> IF ~v.null THEN btof(v.num) ELSE Nil
      [] v.kind = "*[]byte" -> IF ~v.null THEN atof(v.str) ELSE Nil
      [] OTHER -> Nil

(***************************************************************************)
(* Records and the heap of Tag cells.                                      *)
(***************************************************************************)
Slots == {1, 2}

\* The nil pointer; allocated addresses are 1, 2, ...
NilPtr == 0

Tag(k, v) == [Key |-> k, Value |-> v]

Field(k, v) == [Key |-> k, Value |-> v]

\* The metric struct.
metric(n, tg, fl, t, vt, ag) ==
    [name |-> n, tags |-> tg, fields |-> fl, tm |-> t, tp |-> vt,
     aggregate |-> ag]

RECURSIVE FreshPtrs(_, _)
\* n addresses that `used` does not hold, as new(telegraf.Tag) returns them.
FreshPtrs(used, n) ==
    IF n = 0 THEN <<>>
    ELSE LET p == Min({q \in 1..(Cardinality(used) + 1) : q \notin used})
         IN <<p>> \o FreshPtrs(used \cup {p}, n - 1)

\* The cells some record still points to: the garbage collector frees the
\* others, which nothing can observe any more.
Live(rs, h) ==
    LET keep == UNION {Range(rs[r].tags) : r \in Slots} \cap DOMAIN h
    IN [p \in keep |-> h[p]]

(***************************************************************************)
(* The read surface.                                                       *)
(***************************************************************************)
Name(m) == m.name

TagList(m) == m.tags

FieldList(m) == m.fields

Time(m) == m.tm

Type(m) == m.tp

IsAggregate(m) == m.aggregate

\* The (Key, Value) pairs a reader of TagList() sees through the pointers.
TagPairs(m, h) == [i \in 1..Len(m.tags) |-> h[m.tags[i]]]

HasTag(m, h, key) == \E i \in 1..Len(m.tags) : h[m.tags[i]].Key = key

\* GetTag's two results as a pair.
GetTag(m, h, key) ==
    IF HasTag(m, h, key)
    THEN <<h[m.tags[Min({i \in 1..Len(m.tags) : h[m.tags[i]].Key = key})]].Value,
           TRUE>>
    ELSE <<(<<>>), FALSE>>

HasField(m, key) == \E i \in 1..Len(m.fields) : m.fields[i].Key = key

\* GetField's two results as a pair.
GetField(m, key) ==
    IF HasField(m, key)
    THEN <<m.fields[Min({i \in 1..Len(m.fields) : m.fields[i].Key = key})].Value,
           TRUE>>
    ELSE <<Nil, FALSE>>

\* What another object reads of a record: the read contract of
\* telegraf.Metric that FromMetric uses.
View(m, h) ==
    [name |-> Name(m), tags |-> TagPairs(m, h), fields |-> FieldList(m),
     tm |-> Time(m), tp |-> Type(m), aggregate |-> IsAggregate(m)]

(***************************************************************************)
(* Tag list maintenance.                                                   *)
(***************************************************************************)
RECURSIVE ScanTags(_, _, _, _)
\* The loop of AddTag from index i on: where it stops and what it does
\* there.  "set" overwrites the cell at `at`, "insert" puts a new cell
\* before `at`; "append" is the statement after the loop.
ScanTags(tags, h, key, i) ==
    IF i > Len(tags) THEN [how |-> "append", at |-> i]
    ELSE IF StrGreater(key, h[tags[i]].Key) THEN ScanTags(tags, h, key, i + 1)
    ELSE IF key = h[tags[i]].Key THEN [how |-> "set", at |-> i]
    ELSE [how |-> "insert", at |-> i]

\* copy(t[i+1:], t[i:]) on a slice t.
CopyUp(t, i) == [j \in 1..Len(t) |-> IF j > i THEN t[j - 1] ELSE t[j]]

\* copy(t[i:], t[i+1:]) on a slice t.
CopyDown(t, i) ==
    [j \in 1..Len(t) |-> IF j >= i /\ j < Len(t) THEN t[j + 1] ELSE t[j]]

\* AddTag without the ordered insert: a key that is not there is appended.
addTagAppend(tags, h, key, value) ==
    LET i == CHOOSE j \in 0..Len(tags) :
                 /\ j # 0 => h[tags[j]].Key = key
                 /\ j = 0 => \A k \in 1..Len(tags) : h[tags[k]].Key # key
        p == FreshPtrs(DOMAIN h, 1)[1]
    IN IF i # 0
       THEN [tags |-> tags,
             heap |-> [h EXCEPT ![tags[i]] = Tag(h[tags[i]].Key, value)]]
       ELSE [tags |-> Append(tags, p), heap |-> (p :> Tag(key, value)) @@ h]

\* AddTag on a tag slice and the heap: the new slice and the new heap.
addTag(tags, h, key, value) ==
    LET s == ScanTags(tags, h, key, 1)
        p == FreshPtrs(DOMAIN h, 1)[1]
    IN CASE s.how = "set" ->
              [tags |-> tags,
               heap |-> [h EXCEPT ![tags[s.at]] = Tag(h[tags[s.at]].Key, value)]]
         [] s.how = "insert" ->
              [tags |-> [CopyUp(Append(tags, NilPtr), s.at) EXCEPT ![s.at] = p],
               heap |-> (p :> Tag(key, value)) @@ h]
         [] s.how = "append" ->
              [tags |-> Append(tags, p),
               heap |-> (p :> Tag(key, value)) @@ h]

\* The index of the first tag with this key, 0 when there is none.
TagIndex(tags, h, key) ==
    LET hit == {i \in 1..Len(tags) : h[tags[i]].Key = key}
    IN IF hit = {} THEN 0 ELSE Min(hit)

\* RemoveTag on a tag slice.
removeTag(tags, h, key) ==
    LET i == TagIndex(tags, h, key)
    IN IF i = 0 THEN tags
       ELSE SubSeq([CopyDown(tags, i) EXCEPT ![Len(tags)] = NilPtr],
                   1, Len(tags) - 1)

RECURSIVE InsertByKey(_, _, _)
\* One step of the sort: p put before the first pointer with a greater key.
InsertByKey(sorted, p, h) ==
    IF sorted = <<>> THEN <<p>>
    ELSE IF StrLess(h[p].Key, h[Head(sorted)].Key) THEN <<p>> \o sorted
    ELSE <<Head(sorted)>> \o InsertByKey(Tail(sorted), p, h)

RECURSIVE SortByKey(_, _)
\* sort.Slice(m.tags, func(i, j) { return m.tags[i].Key < m.tags[j].Key }).
\* The keys of a Go map are distinct, so the order it leaves is the only
\* ascending one.
SortByKey(tags, h) ==
    IF tags = <<>> THEN <<>>
    ELSE InsertByKey(SortByKey(Tail(tags), h), Head(tags), h)

(***************************************************************************)
(* Field list maintenance.                                                 *)
(***************************************************************************)
\* The index of the first field with this key, 0 when there is none.
FieldIndex(fields, key) ==
    LET hit == {i \in 1..Len(fields) : fields[i].Key = key}
    IN IF hit = {} THEN 0 ELSE Min(hit)

\* AddField that, like NewMetric, skips a value that does not convert.
addFieldSkipNil(fields, key, value) ==
    LET i == FieldIndex(fields, key)
    IN IF convertField(value) = Nil THEN fields
       ELSE IF i # 0
       THEN [fields EXCEPT ![i] = Field(key, convertField(value))]
       ELSE Append(fields, Field(key, convertField(value)))

\* AddField on a field slice.
addField(fields, key, value) ==
    LET i == FieldIndex(fields, key)
    IN IF i # 0
       THEN [fields EXCEPT ![i] = Field(key, convertField(value))]
       ELSE Append(fields, Field(key, convertField(value)))

\* RemoveField without the copy: the slice only loses its last element.
removeFieldNoShift(fields, key) ==
    IF FieldIndex(fields, key) = 0 THEN fields
    ELSE SubSeq(fields, 1, Len(fields) - 1)

\* RemoveField on a field slice.
removeField(fields, key) ==
    LET i == FieldIndex(fields, key)
    IN IF i = 0 THEN fields
       ELSE SubSeq([CopyDown(fields, i) EXCEPT ![Len(fields)] = Field(<<>>, Nil)],
                   1, Len(fields) - 1)

(***************************************************************************)
(* Construction.                                                           *)
(***************************************************************************)
\* The tag cells NewMetric appends while ranging over the map `tags` in the
\* order `order`.
NewTagCells(tags, order) ==
    [i \in 1..Len(order) |-> Tag(order[i], tags[order[i]])]

RECURSIVE NewFieldsKeepNil(_, _, _)
\* The field loop of NewMetric without its `continue`: every key is added.
NewFieldsKeepNil(fields, order, acc) ==
    IF order = <<>> THEN acc
    ELSE NewFieldsKeepNil(fields, Tail(order),
                          addField(acc, Head(order), fields[Head(order)]))

RECURSIVE NewFields(_, _, _)
\* The field loop of NewMetric over the map `fields`, visited in the order
\* `order`, starting from the slice `acc`.
NewFields(fields, order, acc) ==
    IF order = <<>> THEN acc
    ELSE LET v == convertField(fields[Head(order)])
         IN IF v = Nil
            THEN NewFields(fields, Tail(order), acc)
            ELSE NewFields(fields, Tail(order), addField(acc, Head(order), v))

\* NewMetric: the record and the error it returns, and the heap it leaves.
\* tags and fields are Go
\* maps (functions on their key sets), torder and forder the orders in
\* which the two range loops visit them, tp the variadic argument.
newMetric(h, name, tags, fields, tm, tp, torder, forder) ==
    LET vtype == IF Len(tp) > 0 THEN tp[1] ELSE "Untyped"
        ptrs == FreshPtrs(DOMAIN h, Len(torder))
        cells == NewTagCells(tags, torder)
        h2 == [p \in DOMAIN h \cup Range(ptrs) |->
                 IF p \in DOMAIN h THEN h[p]
                 ELSE cells[CHOOSE i \in 1..Len(ptrs) : ptrs[i] = p]]
    IN [rec |-> metric(name, SortByKey(ptrs, h2),
                       NewFields(fields, forder, <<>>), tm, vtype, FALSE),
        heap |-> h2, err |-> Nil]

\* FromMetric: new cells for every tag and field that `other` lists, the
\* keys and values copied as they are.
fromMetric(h, other) ==
    LET ptrs == FreshPtrs(DOMAIN h, Len(other.tags))
        h2 == [p \in DOMAIN h \cup Range(ptrs) |->
                 IF p \in DOMAIN h THEN h[p]
                 ELSE LET i == CHOOSE j \in 1..Len(ptrs) : ptrs[j] = p
                      IN Tag(other.tags[i].Key, other.tags[i].Value)]
    IN [rec |-> metric(other.name, ptrs,
                       [i \in 1..Len(other.fields) |->
                          Field(other.fields[i].Key, other.fields[i].Value)],
                       other.tm, other.tp, other.aggregate),
        heap |-> h2]

\* Copy that copies the slice of pointers and not the cells.
copyShallow(h, m) ==
    [rec |-> metric(m.name, m.tags, m.fields, m.tm, m.tp, m.aggregate),
     heap |-> h]

\* Copy: new cells for every tag and field of m.
copy(h, m) ==
    LET ptrs == FreshPtrs(DOMAIN h, Len(m.tags))
        h2 == [p \in DOMAIN h \cup Range(ptrs) |->
                 IF p \in DOMAIN h THEN h[p]
                 ELSE LET i == CHOOSE j \in 1..Len(ptrs) : ptrs[j] = p
                      IN Tag(h[m.tags[i]].Key, h[m.tags[i]].Value)]
    IN [rec |-> metric(m.name, ptrs,
                       [i \in 1..Len(m.fields) |->
                          Field(m.fields[i].Key, m.fields[i].Value)],
                       m.tm, m.tp, m.aggregate),
        heap |-> h2]

(***************************************************************************)
(* The identity hash.  A 64-bit accumulator is four 16-bit words, least    *)
(* significant first, so that the arithmetic modulo 2^64 is exact.         *)
(***************************************************************************)
\* Bit k of a xor bit k of b, in place.
XorBit(a, b, k) == (((a \div k) + (b \div k)) % 2) * k

\* The exclusive or of two bytes.
Xor8(a, b) ==
    XorBit(a, b, 1) + XorBit(a, b, 2) + XorBit(a, b, 4) + XorBit(a, b, 8)
    + XorBit(a, b, 16) + XorBit(a, b, 32) + XorBit(a, b, 64)
    + XorBit(a, b, 128)

\* offset64 of hash/fnv, 0xcbf29ce484222325.
FnvOffset64 == <<8997, 33826, 40164, 52210>>

\* acc * prime64 modulo 2^64, prime64 = 0x100000001b3 = 2^40 + 435: each
\* word takes 435 times its own, the carry, and what the product by 2^40
\* (two words and eight bits up) puts in it.
MulPrime64(acc) ==
    LET t1 == acc[1] * 435
        t2 == (acc[2] * 435) + (t1 \div 65536)
        t3 == (acc[3] * 435) + ((acc[1] % 256) * 256) + (t2 \div 65536)
        t4 == (acc[4] * 435) + ((acc[2] % 256) * 256) + (acc[1] \div 256)
              + (t3 \div 65536)
    IN <<t1 % 65536, t2 % 65536, t3 % 65536, t4 % 65536>>

RECURSIVE FnvWrite(_, _)
\* (*sum64a).Write: for each byte, xor it into the accumulator, then
\* multiply by the prime.
FnvWrite(acc, bytes) ==
    IF bytes = <<>> THEN acc
    ELSE FnvWrite(MulPrime64([acc EXCEPT ![1] =
                     ((acc[1] \div 256) * 256) + Xor8(acc[1] % 256, Head(bytes))]),
                  Tail(bytes))

RECURSIVE TagBytesNoValue(_, _, _)
\* The loop of HashID without the write of the tag value.
TagBytesNoValue(m, h, i) ==
    IF i > Len(m.tags) THEN <<>>
    ELSE h[m.tags[i]].Key \o <<NL>> \o TagBytesNoValue(m, h, i + 1)

RECURSIVE TagBytes(_, _, _)
\* The bytes the loop of HashID writes for the tags from index i on.
TagBytes(m, h, i) ==
    IF i > Len(m.tags) THEN <<>>
    ELSE h[m.tags[i]].Key \o <<NL>> \o h[m.tags[i]].Value \o <<NL>>
         \o TagBytes(m, h, i + 1)

RECURSIVE FieldBytes(_, _)
\* The keys of the fields from index i on, each followed by the separator.
FieldBytes(m, i) ==
    IF i > Len(m.fields) THEN <<>>
    ELSE m.fields[i].Key \o <<NL>> \o FieldBytes(m, i + 1)

\* HashID that writes the field keys too.
HashBytesWithFields(m, h) ==
    m.name \o <<NL>> \o TagBytes(m, h, 1) \o FieldBytes(m, 1)

\* Every byte HashID writes to the accumulator, in order.
HashBytes(m, h) == m.name \o <<NL>> \o TagBytes(m, h, 1)

\* HashID: the four 16-bit words of Sum64, least significant first.
HashID(m, h) == FnvWrite(FnvOffset64, HashBytes(m, h))

(***************************************************************************)
(* The state machine.  recs[r] is the record in slot r, heap the Tag cells *)
(* the records point to, origin[r] the constructor that built slot r       *)
(* ("none" while the slot is empty), last the operation that led to the    *)
(* state, with its arguments (and, for the two Remove methods, whether     *)
(* their loop found the key; for AddTag, the branch it took).              *)
(***************************************************************************)
NoRecord == metric(<<>>, <<>>, <<>>, 0, "Untyped", FALSE)

Init ==
    /\ recs = [r \in Slots |-> NoRecord]
    /\ heap = <<>>
    /\ origin = [r \in Slots |-> "none"]
    /\ last = [op |-> "init", r |-> 0]

Exists(r) == origin[r] # "none"

\* The slot the next constructor fills.
FreeSlot(r) == ~Exists(r) /\ \A q \in Slots : q < r => Exists(q)

Built(r, res, how) ==
    /\ recs' = [recs EXCEPT ![r] = res.rec]
    /\ heap' = Live(recs', res.heap)
    /\ origin' = [origin EXCEPT ![r] = how]

NewMetric(r, name, tags, fields, tm, tp, torder, forder) ==
    /\ FreeSlot(r)
    /\ LET res == newMetric(heap, name, tags, fields, tm, tp, torder, forder)
       IN /\ Built(r, res, "NewMetric")
          /\ last' = [op |-> "NewMetric", r |-> r, name |-> name,
                      tags |-> tags, fields |-> fields, tm |-> tm, tp |-> tp,
                      err |-> res.err]

\* FromMetric(other) for an object `other` of any type that implements
\* telegraf.Metric; own says whether it is a record of this package.
FromMetric(r, other, own) ==
    /\ FreeSlot(r)
    /\ Built(r, fromMetric(heap, other), "FromMetric")
    /\ last' = [op |-> "FromMetric", r |-> r, other |-> other, own |-> own]

Copy(r, src) ==
    /\ FreeSlot(r)
    /\ Exists(src)
    /\ Built(r, copy(heap, recs[src]), "Copy")
    /\ last' = [op |-> "Copy", r |-> r, src |-> src]

SetName(r, name) ==
    /\ Exists(r)
    /\ recs' = [recs EXCEPT ![r].name = name]
    /\ UNCHANGED <<heap, origin>>
    /\ last' = [op |-> "SetName", r |-> r, name |-> name]

AddTag(r, key, value) ==
    /\ Exists(r)
    /\ Len(recs[r].tags) < MaxTags \/ HasTag(recs[r], heap, key)
    /\ LET res == addTag(recs[r].tags, heap, key, value)
       IN /\ recs' = [recs EXCEPT ![r].tags = res.tags]
          /\ heap' = Live(recs', res.heap)
    /\ UNCHANGED origin
    /\ last' = [op |-> "AddTag", r |-> r, key |-> key, value |-> value,
                how |-> ScanTags(recs[r].tags, heap, key, 1).how]

RemoveTag(r, key) ==
    /\ Exists(r)
    /\ recs' = [recs EXCEPT ![r].tags = removeTag(recs[r].tags, heap, key)]
    /\ heap' = Live(recs', heap)
    /\ UNCHANGED origin
    /\ last' = [op |-> "RemoveTag", r |-> r, key |-> key,
                found |-> HasTag(recs[r], heap, key)]

AddField(r, key, value) ==
    /\ Exists(r)
    /\ Len(recs[r].fields) < MaxFields \/ HasField(recs[r], key)
    /\ recs' = [recs EXCEPT ![r].fields = addField(recs[r].fields, key, value)]
    /\ UNCHANGED <<heap, origin>>
    /\ last' = [op |-> "AddField", r |-> r, key |-> key, value |-> value]

RemoveField(r, key) ==
    /\ Exists(r)
    /\ recs' = [recs EXCEPT ![r].fields = removeField(recs[r].fields, key)]
    /\ UNCHANGED <<heap, origin>>
    /\ last' = [op |-> "RemoveField", r |-> r, key |-> key,
                found |-> HasField(recs[r], key)]

SetTime(r, t) ==
    /\ Exists(r)
    /\ recs' = [recs EXCEPT ![r].tm = t]
    /\ UNCHANGED <<heap, origin>>
    /\ last' = [op |-> "SetTime", r |-> r, tm |-> t]

\* SetAggregate that stores its argument.
setAggregateArg(b) == b

\* The flag SetAggregate stores for the argument b.
setAggregate(b) == TRUE

SetAggregate(r, b) ==
    /\ Exists(r)
    /\ recs' = [recs EXCEPT ![r].aggregate = setAggregate(b)]
    /\ UNCHANGED <<heap, origin>>
    /\ last' = [op |-> "SetAggregate", r |-> r, b |-> b]

(***************************************************************************)
(* Inputs.                                                                 *)
(***************************************************************************)
\* The Go maps with at most n keys from K and values from V.
Maps(K, V, n) ==
    UNION {[S -> V] : S \in {T \in SUBSET K : Cardinality(T) <= n}}

\* The orders in which a range loop may visit the keys of the map f.
Orders(f) ==
    {o \in [1..Cardinality(DOMAIN f) -> DOMAIN f] :
        \A i, j \in DOMAIN o : i # j => o[i] # o[j]}

\* The sequences of at most n elements of S.
SeqsUpTo(S, n) == UNION {[1..k -> S] : k \in 0..n}

\* The empty Go map.
NoMap == <<>>

\* "a", "b"
Names == {<<97>>, <<98>>}

\* "a", "b", "c"
TagKeys == {<<97>>, <<98>>, <<99>>}

\* "x", "y"
TagValues == {<<120>>, <<121>>}

\* "f", "g", "h"
FieldKeys == {<<102>>, <<103>>, <<104>>}

\* int64(2), true, "7", "ab", a composite ([]int), a nil *int64
RawValues ==
    {Val("int64", 2, <<>>, FALSE), Val("bool", 1, <<>>, FALSE),
     Val("string", 0, <<55>>, FALSE), Val("string", 0, <<97, 98>>, FALSE),
     Val("[]int", 0, <<>>, FALSE), Val("*int64", 0, <<>>, TRUE)}

\* Two of them: one that converts, one that does not.
FewValues == {Val("int64", 2, <<>>, FALSE), Val("string", 0, <<97, 98>>, FALSE)}

Times == {0, 1}

\* The variadic tp argument: absent, or one value type.
TypeArgs == {<<>>, <<"Counter">>}

\* An object of another type that implements telegraf.Metric: what its
\* Name, TagList, FieldList, Time, Type and IsAggregate return.  Its lists
\* enumerate what its Tags() and Fields() maps hold, so no key comes twice;
\* the interface type fixes neither their order nor the types of the field
\* values.
Foreign(n, tg, fl) ==
    [name |-> n, tags |-> tg, fields |-> fl, tm |-> 1, tp |-> "Gauge",
     aggregate |-> FALSE]

\* The lists of at most n entries from S that hold no key twice.
ListsUpTo(S, n) ==
    {l \in SeqsUpTo(S, n) : \A i, j \in 1..Len(l) : i # j => l[i].Key # l[j].Key}

\* Two such objects: one lists tag b before tag a and holds an int64 field
\* value, the other holds a bool and a float64 field value.
ForeignObjects ==
    {Foreign(<<97>>, <<Tag(<<98>>, <<120>>), Tag(<<97>>, <<120>>)>>,
             <<Field(<<102>>, Val("int64", 2, <<>>, FALSE))>>),
     Foreign(<<97>>, <<Tag(<<97>>, <<120>>), Tag(<<99>>, <<121>>)>>,
             <<Field(<<103>>, Val("bool", 1, <<>>, FALSE)),
               Field(<<102>>, F64(1))>>)}

(***************************************************************************)
(* Spec: a record built by NewMetric and a copy of it, each changed by any *)
(* sequence of the mutating methods.                                       *)
(***************************************************************************)
Next ==
    \/ FreeSlot(1) /\
          \E name \in Names, tags \in Maps({<<97>>}, TagValues, MaxTags),
             fields \in Maps({<<102>>}, FewValues, MaxFields), tm \in Times :
          \E torder \in Orders(tags), forder \in Orders(fields) :
             NewMetric(1, name, tags, fields, tm, <<"Counter">>, torder, forder)
    \/ Copy(2, 1)
    \/ \E r \in Slots, name \in Names : SetName(r, name)
    \/ \E r \in Slots, value \in TagValues : AddTag(r, <<97>>, value)
    \/ \E r \in Slots : RemoveTag(r, <<97>>)
    \/ \E r \in Slots, value \in FewValues : AddField(r, <<102>>, value)
    \/ \E r \in Slots : RemoveField(r, <<102>>)
    \/ \E r \in Slots, t \in Times : SetTime(r, t)
    \/ \E r \in Slots, b \in BOOLEAN : SetAggregate(r, b)

Spec == Init /\ [][Next]_vars

(***************************************************************************)
(* SpecTags: one record and its tag list, built by NewMetric or by         *)
(* FromMetric from an object of another type.                              *)
(***************************************************************************)
NextTags ==
    \/ FreeSlot(1) /\
          \E tags \in Maps(TagKeys, TagValues, MaxTags), tp \in TypeArgs :
          \E torder \in Orders(tags) :
             NewMetric(1, <<97>>, tags, NoMap, 0, tp, torder, <<>>)
    \/ FreeSlot(1) /\
          \E tg \in ListsUpTo({Tag(k, <<120>>) : k \in TagKeys}, MaxTags) :
          FromMetric(1, Foreign(<<97>>, tg, <<>>), FALSE)
    \/ \E key \in TagKeys, value \in TagValues : AddTag(1, key, value)
    \/ \E key \in TagKeys : RemoveTag(1, key)

SpecTags == Init /\ [][NextTags]_vars

(***************************************************************************)
(* SpecFields: one record and its field list, built by NewMetric or by     *)
(* FromMetric from an object of another type.                              *)
(***************************************************************************)
NextFields ==
    \/ FreeSlot(1) /\
          \E fields \in Maps(FieldKeys, RawValues, MaxFields) :
          \E forder \in Orders(fields) :
             NewMetric(1, <<97>>, NoMap, fields, 0, <<>>, <<>>, forder)
    \/ FreeSlot(1) /\
          \E fl \in ListsUpTo({Field(k, v) : k \in {<<102>>, <<103>>},
                                v \in {F64(1), Val("int64", 2, <<>>, FALSE)}},
                             MaxFields) :
          FromMetric(1, Foreign(<<97>>, <<>>, fl), FALSE)
    \/ \E key \in FieldKeys, value \in RawValues : AddField(1, key, value)
    \/ \E key \in FieldKeys : RemoveField(1, key)

SpecFields == Init /\ [][NextFields]_vars

(***************************************************************************)
(* SpecLists: one record with both lists, built by NewMetric or by         *)
(* FromMetric, the two lists growing and shrinking.                        *)
(***************************************************************************)
NextLists ==
    \/ FreeSlot(1) /\
          \E tags \in Maps(TagKeys, {<<120>>}, MaxTags),
             fields \in Maps(FieldKeys, FewValues, MaxFields) :
          \E torder \in Orders(tags), forder \in Orders(fields) :
             NewMetric(1, <<97>>, tags, fields, 0, <<>>, torder, forder)
    \/ FreeSlot(1) /\ \E o \in ForeignObjects : FromMetric(1, o, FALSE)
    \/ \E key \in TagKeys : AddTag(1, key, <<120>>)
    \/ \E key \in TagKeys : RemoveTag(1, key)
    \/ \E key \in FieldKeys, value \in FewValues : AddField(1, key, value)
    \/ \E key \in FieldKeys : RemoveField(1, key)

SpecLists == Init /\ [][NextLists]_vars

(***************************************************************************)
(* SpecPair: two records built by NewMetric with the same name, their      *)
(* fields, timestamps and aggregate flags changing.                        *)
(***************************************************************************)
NextPair ==
    \/ \E r \in Slots : FreeSlot(r) /\
          \E tags \in Maps({<<97>>}, {<<120>>}, MaxTags), tm \in Times,
             tp \in TypeArgs :
          \E torder \in Orders(tags) :
             NewMetric(r, <<97>>, tags, NoMap, tm, tp, torder, <<>>)
    \/ \E r \in Slots : AddField(r, <<102>>, Val("int64", 2, <<>>, FALSE))
    \/ \E r \in Slots : RemoveField(r, <<102>>)
    \/ \E r \in Slots, t \in Times : SetTime(r, t)
    \/ \E r \in Slots, b \in BOOLEAN : SetAggregate(r, b)

SpecPair == Init /\ [][NextPair]_vars

(***************************************************************************)
(* SpecHash: HashID as a function of two records whose names, tag keys and *)
(* tag values are any strings, the newline byte included.                  *)
(***************************************************************************)
MaxHashTags == 1

\* "a", "b"
HashNames == {<<97>>, <<98>>}

\* "a", "b", "a\n"
HashKeys == {<<97>>, <<98>>, <<97, NL>>}

\* "a", "b", "\na"
HashValues == {<<97>>, <<98>>, <<NL, 97>>}

HashObjects ==
    {Foreign(n, tg, <<>>) :
        n \in HashNames,
        tg \in SeqsUpTo({Tag(k, v) : k \in HashKeys, v \in HashValues},
                        MaxHashTags)}

InitHash ==
    \E o1, o2 \in HashObjects :
       LET b1 == fromMetric(<<>>, o1)
           b2 == fromMetric(b1.heap, o2)
       IN /\ recs = (1 :> b1.rec) @@ (2 :> b2.rec)
          /\ heap = b2.heap
          /\ origin = [r \in Slots |-> "FromMetric"]
          /\ last = [op |-> "init", r |-> 0]

\* A call of HashID on slot r: what it wrote and what it returned.
CallHashID(r) ==
    /\ Exists(r)
    /\ last' = [op |-> "HashID", r |-> r, bytes |-> HashBytes(recs[r], heap),
                sum |-> HashID(recs[r], heap)]
    /\ UNCHANGED <<recs, heap, origin>>

NextHash == \E r \in Slots : CallHashID(r)

SpecHash == InitHash /\ [][NextHash]_vars

(***************************************************************************)
(* Properties.                                                             *)
(***************************************************************************)
\* The tags of slot r as a reader sees them, now and after the step.
Pairs(r) == TagPairs(recs[r], heap)

PairsNext(r) == TagPairs(recs'[r], heap')

\* Strictly ascending by key.
Ascending(tp) ==
    \A i \in 1..(Len(tp) - 1) : StrLess(tp[i].Key, tp[i + 1].Key)

\* No key at two indexes.
NoDuplicateKey(l) ==
    \A i, j \in 1..Len(l) : i # j => l[i].Key # l[j].Key

\* C1: the tag list of a record built by NewMetric is, after construction
\* and after every AddTag and RemoveTag on it, sorted strictly ascending by
\* key and holds no key twice.
C1_TagsSortedUnique ==
    origin[1] = "NewMetric" => Ascending(Pairs(1)) /\ NoDuplicateKey(Pairs(1))

\* A record built by NewMetric that AddTag has just given a new tag "b"
\* between its tags "a" and "c".
C1_Witness ==
    /\ origin[1] = "NewMetric"
    /\ last.op = "AddTag" /\ last.key = <<98>>
    /\ Len(recs[1].tags) = 3
    /\ Pairs(1)[1].Key = <<97>> /\ Pairs(1)[3].Key = <<99>>

C2_FieldValuesCanonical ==
    \A r \in Slots :
       Exists(r) =>
          \A i \in 1..Len(recs[r].fields) :
             recs[r].fields[i].Value.kind \in {"float64", "nil"}

\* C3: NewMetric returns no error, and the field list it builds holds
\* exactly the keys of the input map whose values convert, each once and
\* with its converted value; a key whose value does not convert is absent.
C3_NewMetricDropsUnconvertible ==
    last.op = "NewMetric" =>
       LET m == recs[last.r]
           in == last.fields
       IN /\ last.err = Nil
          /\ \A i \in 1..Len(m.fields) : m.fields[i].Key \in DOMAIN in
          /\ \A k \in DOMAIN in :
                IF convertField(in[k]) = Nil
                THEN ~HasField(m, k)
                ELSE /\ Cardinality({i \in 1..Len(m.fields) :
                                        m.fields[i].Key = k}) = 1
                     /\ GetField(m, k) = <<convertField(in[k]), TRUE>>

\* NewMetric has just built a record from a map with a key whose value
\* converts and a key whose value does not.
C3_Witness ==
    /\ last.op = "NewMetric"
    /\ \E k \in DOMAIN last.fields : convertField(last.fields[k]) = Nil
    /\ \E k \in DOMAIN last.fields : convertField(last.fields[k]) # Nil
    /\ Len(recs[last.r].fields) = 1

\* C4: AddField(k, v) leaves k present exactly once.  If k was present, the
\* list keeps its length and its keys in order and only k's value changes,
\* to the converted v; otherwise the list is the old one with (k, converted
\* v) appended.  GetField(k) then returns (converted v, true), also when v
\* does not convert and the value stored is the no-value marker.
C4_AddFieldUpserts ==
    [][last'.op = "AddField" =>
          LET r == last'.r
              k == last'.key
              n == convertField(last'.value)
              pre == recs[r].fields
              post == recs'[r].fields
          IN /\ Cardinality({i \in 1..Len(post) : post[i].Key = k}) = 1
             /\ IF HasField(recs[r], k)
                THEN /\ Len(post) = Len(pre)
                     /\ \A i \in 1..Len(pre) :
                           /\ post[i].Key = pre[i].Key
                           /\ pre[i].Key # k => post[i] = pre[i]
                           /\ pre[i].Key = k => post[i].Value = n
                ELSE post = Append(pre, Field(k, n))
             /\ GetField(recs'[r], k) = <<n, TRUE>>]_vars

\* AddField has just replaced, in place and ahead of another field, the
\* value of a key by the no-value marker.
C4_Witness ==
    /\ last.op = "AddField"
    /\ convertField(last.value) = Nil
    /\ Len(recs[1].fields) >= 2
    /\ recs[1].fields[1] = Field(last.key, Nil)

\* RemoveTag and RemoveField on a list: the entries before the first one
\* with the key, then the entries after it.
WithoutFirst(l, key) ==
    LET hit == {i \in 1..Len(l) : l[i].Key = key}
    IN IF hit = {} THEN l
       ELSE LET i == CHOOSE j \in hit : \A q \in hit : j <= q
            IN SubSeq(l, 1, i - 1) \o SubSeq(l, i + 1, Len(l))

\* C7: RemoveTag(k) and RemoveField(k) leave the sequence without its entry
\* for k, one shorter, the other entries in their order and with their
\* values; when k is absent the sequence is unchanged.  The other sequence,
\* the name, the timestamp, the value kind and the aggregate flag are
\* unchanged.
C7_RemoveDeletesOneEntry ==
    [][/\ last'.op = "RemoveTag" =>
             /\ PairsNext(last'.r) = WithoutFirst(Pairs(last'.r), last'.key)
             /\ recs'[last'.r] = [recs[last'.r] EXCEPT !.tags = recs'[last'.r].tags]
       /\ last'.op = "RemoveField" =>
             /\ recs'[last'.r].fields
                   = WithoutFirst(recs[last'.r].fields, last'.key)
             /\ recs'[last'.r] = [recs[last'.r] EXCEPT !.fields = recs'[last'.r].fields]
             /\ PairsNext(last'.r) = Pairs(last'.r)]_vars

\* RemoveField has just taken field g out of a record that held it, and
\* left fields f and h, in this order, and two tags.
C7_Witness ==
    /\ last.op = "RemoveField" /\ last.found
    /\ Len(recs[1].fields) = 2
    /\ last.key = <<103>>
    /\ recs[1].fields[1].Key = <<102>>
    /\ recs[1].fields[2].Key = <<104>>
    /\ Len(recs[1].tags) = 2

\* Everything a reader observes of slot r, now and after the step.
Seen(r) == View(recs[r], heap)

SeenNext(r) == View(recs'[r], heap')

\* C5: the record Copy returns has the name, tag list, field list,
\* timestamp, value kind and aggregate flag of the record copied, and no
\* mutation of one of the two records changes anything a reader observes of
\* the other.
C5_CopyIsIndependent ==
    [][/\ last'.op = "Copy" => SeenNext(last'.r) = Seen(last'.src)
       /\ \A q \in Slots :
             Exists(q) /\ q # last'.r => SeenNext(q) = Seen(q)]_vars

\* AddTag has just overwritten, in the copy, the value of a tag that the
\* record copied holds too, and the two values differ.
C5_Witness ==
    /\ origin[2] = "Copy"
    /\ last.op = "AddTag" /\ last.r = 2 /\ last.how = "set"
    /\ HasTag(recs[1], heap, last.key)
    /\ GetTag(recs[1], heap, last.key) # GetTag(recs[2], heap, last.key)

\* C6: two records with equal names and equal tag lists have the same
\* HashID, whatever their fields, timestamps, value kinds and aggregate
\* flags; AddField, RemoveField, SetTime and SetAggregate leave the HashID of
\* the record they change as it was.
C6_HashIgnoresFieldsAndTime ==
    [][/\ (Exists(1)' /\ Exists(2)' /\ recs'[1].name = recs'[2].name
             /\ PairsNext(1) = PairsNext(2))
          => HashID(recs'[1], heap') = HashID(recs'[2], heap')
       /\ last'.op \in {"AddField", "RemoveField", "SetTime", "SetAggregate"}
          => HashID(recs'[last'.r], heap') = HashID(recs[last'.r], heap)]_vars

\* AddField has just made the field lists of two records differ that have
\* the same name and the same tag and differ in timestamp, value kind and
\* aggregate flag too.
C6_Witness ==
    /\ Exists(1) /\ Exists(2)
    /\ last.op = "AddField"
    /\ recs[1].name = recs[2].name /\ Pairs(1) = Pairs(2)
    /\ Len(recs[1].tags) = 1
    /\ recs[1].fields # recs[2].fields
    /\ recs[1].tp # recs[2].tp
    /\ recs[1].tm # recs[2].tm
    /\ recs[1].aggregate # recs[2].aggregate

\* C9: IsAggregate is true after SetAggregate(b) for either b; it is false
\* for a record NewMetric has built and stays so until SetAggregate is
\* called on the record; once true, no operation makes it false.
C9_AggregateOnlyEverSet ==
    [][/\ last'.op = "NewMetric" => ~IsAggregate(recs'[last'.r])
       /\ last'.op = "SetAggregate" => IsAggregate(recs'[last'.r])
       /\ \A q \in Slots :
             Exists(q) =>
                /\ IsAggregate(recs[q]) => IsAggregate(recs'[q])
                /\ ~(last'.op = "SetAggregate" /\ last'.r = q)
                   => IsAggregate(recs'[q]) = IsAggregate(recs[q])]_vars

\* SetAggregate(false) has just been called on a record, which reports true.
C9_Witness ==
    /\ last.op = "SetAggregate" /\ last.b = FALSE
    /\ IsAggregate(recs[last.r])

\* The strings of a record hold no newline byte.
NoNewline(m, h) ==
    /\ NL \notin Range(m.name)
    /\ \A i \in 1..Len(m.tags) :
          NL \notin Range(h[m.tags[i]].Key) \cup Range(h[m.tags[i]].Value)

\* Two records differ in name or in tag list.
DifferentIdentity == recs[1].name # recs[2].name \/ Pairs(1) # Pairs(2)

\* C10, as claimed: two records that differ in name or in tag list feed
\* HashID different byte sequences, whatever bytes their strings hold.
C10_EncodingInjective ==
    DifferentIdentity => HashBytes(recs[1], heap) # HashBytes(recs[2], heap)

\* C10, amended: two records that differ in name or in tag list, and whose
\* names, tag keys and tag values hold no newline byte, feed HashID
\* different byte sequences.
C10_EncodingInjectiveNoNewline ==
    (/\ DifferentIdentity
     /\ NoNewline(recs[1], heap) /\ NoNewline(recs[2], heap))
    => HashBytes(recs[1], heap) # HashBytes(recs[2], heap)

\* HashID has just been called on one of two records without newline bytes
\* that have the same name and tag key and differ in the tag value.
C10_Witness ==
    /\ last.op = "HashID"
    /\ NoNewline(recs[1], heap) /\ NoNewline(recs[2], heap)
    /\ recs[1].name = recs[2].name
    /\ Len(recs[1].tags) = 1 /\ Len(recs[2].tags) = 1
    /\ Pairs(1)[1].Key = Pairs(2)[1].Key
    /\ Pairs(1)[1].Value # Pairs(2)[1].Value
    /\ last.bytes = HashBytes(recs[last.r], heap)

====
